---------------------------- MODULE Spec2Model ----------------------------
(***************************************************************************)
(* A model of robodev's code-review gate (src/robodev/reviewer.py): the    *)
(* unified-diff parser, the four rule-based detectors and the orchestrator *)
(* reviewer.run with its verdict; of the PR comment the gates share        *)
(* (post_pr_comment, src/robodev/github_client.py); and of the summary     *)
(* gate (src/robodev/summary.py).                                          *)
(*                                                                         *)
(* Text is a sequence of one-character strings.  A finding is the message  *)
(* the code builds: a sequence of tokens, the literal pieces of the        *)
(* f-string as single tokens and every interpolated string character by    *)
(* character, so that Python's `"x" in message` for a one-character x is   *)
(* membership among the tokens.                                            *)
(***************************************************************************)
EXTENDS Integers, Sequences, FiniteSets, TLC

VARIABLES
    pc,            \* where the modelled call stands
    files, diff,   \* the PR's file list and its unified diff
    cfg,           \* the loaded configuration (reviewer.run)
    arg,           \* the second argument of a detector called on its own, or
                   \* the body handed to post_pr_comment
    issues,        \* the findings: run's list, or a detector's return value
    ai_summary, body_lines, has_errors, event, ret,   \* run's locals and result
    reviews,       \* the reviews create_review has posted
    raised,        \* the exception the call ended with, "" for none
    lines, pos, current_file, results,  \* _parse_added_lines' scan
    comments,      \* the PR's top-level comments, oldest first
    env            \* the environment variables of the summary gate

vars == <<pc, files, diff, cfg, arg, issues, ai_summary, body_lines, has_errors,
          event, ret, reviews, raised, lines, pos, current_file, results,
          comments, env>>

runVars == <<files, cfg, arg, issues, ai_summary, body_lines, has_errors, event,
             ret, reviews, raised>>
scanVars == <<lines, pos, current_file, results>>
runLocals == <<ai_summary, body_lines, has_errors, event, ret, reviews>>
gateVars == <<comments, env>>

-----------------------------------------------------------------------------
(* Text helpers: the str operations the code uses.                         *)

Range(s) == {s[i] : i \in 1..Len(s)}

\* str.startswith
StartsWith(s, p) == Len(s) >= Len(p) /\ SubSeq(s, 1, Len(p)) = p

\* s[n:]
Drop(s, n) == SubSeq(s, n + 1, Len(s))

\* s[:n]
Take(s, n) == SubSeq(s, 1, IF Len(s) < n THEN Len(s) ELSE n)

\* Python's None, and the truth value of a `str | None`
None == <<"<None>">>
Truthy(s) == s # None /\ s # <<>>

NL == "\n"

RECURSIVE JoinWith(_, _)
\* sep.join(parts), parts a sequence of texts
JoinWith(sep, parts) ==
    IF parts = <<>> THEN <<>>
    ELSE IF Len(parts) = 1 THEN parts[1]
    ELSE parts[1] \o sep \o JoinWith(sep, Tail(parts))

\* str.splitlines() on text whose only line boundary is "\n": the pieces
\* between the newlines; a final newline ends the last line and opens no
\* further one
Splitlines(text) ==
    LET nls  == {i \in 1..Len(text) : text[i] = NL}
        ends == nls \cup (IF text # <<>> /\ text[Len(text)] # NL THEN {Len(text) + 1} ELSE {})
        EndOf(k) == CHOOSE e \in ends : Cardinality({x \in ends : x <= e}) = k
        StartOf(k) == IF k = 1 THEN 1 ELSE EndOf(k - 1) + 1
    IN  [k \in 1..Cardinality(ends) |-> SubSeq(text, StartOf(k), EndOf(k) - 1)]

-----------------------------------------------------------------------------
(* The diff parser, reviewer.py:41-66                                      *)

_EXCLUDED_PATHS ==
    << <<"r","o","b","o","d","e","v","/">>,
       <<".","g","i","t","h","u","b","/">>,
       <<"A","G","E","N","T","S",".","m","d">> >>

HeaderPrefix == <<"+","+","+"," ","b","/">>
Plus == <<"+">>
PlusPlusPlus == <<"+","+","+">>

\* the path is one of the listed strings, not merely prefixed by one
IsExcludedExact(path) ==
    \E k \in 1..Len(_EXCLUDED_PATHS) : path = _EXCLUDED_PATHS[k]

\* any(path.startswith(ex) for ex in _EXCLUDED_PATHS)
IsExcluded(path) ==
    \E k \in 1..Len(_EXCLUDED_PATHS) : StartsWith(path, _EXCLUDED_PATHS[k])

\* One iteration of the loop over diff.splitlines(): the cursor and the
\* result list after raw_line, from the cursor and the list before it.
ParseLineKeepCursor(cur, res, raw_line) ==
    IF StartsWith(raw_line, HeaderPrefix)
    THEN [cur |-> IF IsExcluded(Drop(raw_line, 6)) THEN cur ELSE Drop(raw_line, 6),
          res |-> res]
    ELSE IF Truthy(cur) /\ StartsWith(raw_line, Plus)
                        /\ ~StartsWith(raw_line, PlusPlusPlus)
         THEN [cur |-> cur, res |-> Append(res, <<cur, Drop(raw_line, 1)>>)]
         ELSE [cur |-> cur, res |-> res]
ParseLine(cur, res, raw_line) ==
    IF StartsWith(raw_line, HeaderPrefix)
    THEN [cur |-> IF IsExcluded(Drop(raw_line, 6)) THEN None ELSE Drop(raw_line, 6),
          res |-> res]
    ELSE IF Truthy(cur) /\ StartsWith(raw_line, Plus)
                        /\ ~StartsWith(raw_line, PlusPlusPlus)
         THEN [cur |-> cur, res |-> Append(res, <<cur, Drop(raw_line, 1)>>)]
         ELSE [cur |-> cur, res |-> res]

RECURSIVE ParseFrom(_, _, _, _)
ParseFrom(ls, i, cur, res) ==
    IF i > Len(ls) THEN res
    ELSE LET st == ParseLine(cur, res, ls[i])
         IN  ParseFrom(ls, i + 1, st.cur, st.res)

\* the whole function: cursor None, empty list, every line in order
_parse_added_lines(d) == ParseFrom(Splitlines(d), 1, None, <<>>)

-----------------------------------------------------------------------------
(* Findings.  The icons: CrossMark is U+274C, WarnSign is U+26A0 U+FE0F;   *)
(* the messages' backquotes are written as single quotes.                  *)

CrossMark == "U+274C"
WarnSign == "U+26A0"

\* dict.get(k, default); a dict is a function from its keys, {} is <<>>
Get(d, k, default) == IF k \in DOMAIN d THEN d[k] ELSE default

\* x in s, for a one-character x
Contains1(s, x) == \E i \in 1..Len(s) : s[i] = x

\* sub in s
Contains(s, sub) ==
    \E i \in 1..(Len(s) - Len(sub) + 1) : SubSeq(s, i, i + Len(sub) - 1) = sub

-----------------------------------------------------------------------------
(* _check_file_size, reviewer.py:28-38                                     *)

SizeMessage(f, changes, max_changed) ==
    <<"- ", WarnSign, " '">> \o f.filename
        \o <<"' has **", ToString(changes), "** changed lines (threshold: ",
             ToString(max_changed), "). Consider splitting this change.">>

RECURSIVE SizeFromAtLeast(_, _, _)
SizeFromAtLeast(fs, i, max_changed) ==
    IF i > Len(fs) THEN <<>>
    ELSE LET changes == Get(fs[i], "changes", 0)
         IN  (IF changes >= max_changed
              THEN <<SizeMessage(fs[i], changes, max_changed)>> ELSE <<>>)
             \o SizeFromAtLeast(fs, i + 1, max_changed)

RECURSIVE SizeFrom(_, _, _)
SizeFrom(fs, i, max_changed) ==
    IF i > Len(fs) THEN <<>>
    ELSE LET changes == Get(fs[i], "changes", 0)
         IN  (IF changes > max_changed
              THEN <<SizeMessage(fs[i], changes, max_changed)>> ELSE <<>>)
             \o SizeFrom(fs, i + 1, max_changed)

check_file_size_at_least(fs, max_changed) == SizeFromAtLeast(fs, 1, max_changed)
_check_file_size(fs, max_changed) == SizeFrom(fs, 1, max_changed)

-----------------------------------------------------------------------------
(* _check_large_pr, reviewer.py:93-100                                     *)

_check_large_pr(fs, max_files) ==
    IF Len(fs) > max_files
    THEN << <<"- ", WarnSign, " This PR modifies **", ToString(Len(fs)),
              " files** (recommended max: ", ToString(max_files),
              "). Large PRs are harder to review.">> >>
    ELSE <<>>

-----------------------------------------------------------------------------
(* _check_banned_patterns, reviewer.py:69-90                               *)
(* The regular expressions modelled are the literal ones (every character  *)
(* stands for itself, the empty one included) and those with a "(" that is *)
(* never closed, which re refuses: "missing ), unterminated subpattern".   *)

TruncateAt == 80

RegexCompiles(regex) == ~Contains1(regex, "(")

MatchAt(text, lit, p) ==
    p + Len(lit) - 1 <= Len(text) /\ SubSeq(text, p, p + Len(lit) - 1) = lit

\* the first position from p on where lit matches, 0 when there is none
NextMatch(text, lit, p) ==
    IF p > Len(text) + 1 THEN 0
    ELSE IF MatchAt(text, lit, p) THEN p
    ELSE LET ps == {q \in p..(Len(text) + 1) : MatchAt(text, lit, q)}
         IN  IF ps = {} THEN 0 ELSE CHOOSE q \in ps : \A r \in ps : q <= r

RECURSIVE FindFrom(_, _, _)
\* the matches of a non-empty literal from position p on: the leftmost one,
\* then the search goes on after its end
FindFrom(text, lit, p) ==
    LET q == NextMatch(text, lit, p)
    IN  IF q = 0 THEN <<>>
        ELSE <<lit>> \o FindFrom(text, lit, q + Len(lit))

\* the texts matched by re.finditer(regex, text), in order; the empty regex
\* matches the empty text once at every position, the end included
finditer(regex, text) ==
    IF regex = <<>> THEN [k \in 1..(Len(text) + 1) |-> <<>>]
    ELSE FindFrom(text, regex, 1)

BannedMessage(icon, label, matched) ==
    <<"- ", icon, " **">> \o label \o <<"** detected in diff near: '">>
        \o Take(matched, TruncateAt) \o <<"'">>

\* the findings of one entry whose regex compiles, reviewer.py:84-89
EntryFindings(entry, added_text) ==
    LET regex    == Get(entry, "regex", <<>>)
        label    == Get(entry, "label", regex)
        severity == Get(entry, "severity", "warning")
        icon     == IF severity = "error" THEN CrossMark ELSE WarnSign
        ms       == finditer(regex, added_text)
    IN  [k \in 1..Len(ms) |-> BannedMessage(icon, label, ms[k])]

RECURSIVE BannedFrom(_, _, _, _)
\* the loop over the entries; re.finditer compiles the regex when called, and
\* nothing catches its re.error
BannedFrom(patterns, k, added_text, acc) ==
    IF k > Len(patterns) THEN [raised |-> "", out |-> acc]
    ELSE IF ~RegexCompiles(Get(patterns[k], "regex", <<>>))
         THEN [raised |-> "re.error", out |-> <<>>]
         ELSE BannedFrom(patterns, k + 1, added_text,
                         acc \o EntryFindings(patterns[k], added_text))

\* [raised, out]: the exception the call ends with ("" for none) and the
\* list it returns
_check_banned_patterns(d, patterns) ==
    LET added_lines == _parse_added_lines(d)
    IN  IF added_lines = <<>> THEN [raised |-> "", out |-> <<>>]
        ELSE BannedFrom(patterns, 1,
                        JoinWith(<<NL>>, [k \in 1..Len(added_lines) |-> added_lines[k][2]]),
                        <<>>)

-----------------------------------------------------------------------------
(* _check_test_coverage, reviewer.py:103-126                               *)

Uppers == <<"A","B","C","D","E","F","G","H","I","J","K","L","M",
            "N","O","P","Q","R","S","T","U","V","W","X","Y","Z">>
Lowers == <<"a","b","c","d","e","f","g","h","i","j","k","l","m",
            "n","o","p","q","r","s","t","u","v","w","x","y","z">>

LowerChar(c) ==
    IF \E i \in 1..26 : Uppers[i] = c
    THEN Lowers[CHOOSE i \in 1..26 : Uppers[i] = c] ELSE c

\* str.lower()
Lower(s) == [i \in 1..Len(s) |-> LowerChar(s[i])]

\* s.rfind(c): the last index of c, counted from 0, or -1
RFind(s, c) ==
    LET is == {i \in 1..Len(s) : s[i] = c}
    IN  IF is = {} THEN -1 ELSE (CHOOSE i \in is : \A j \in is : j <= i) - 1

RECURSIVE StripTrailingSlashes(_)
StripTrailingSlashes(s) ==
    IF Len(s) > 1 /\ s[Len(s)] = "/" THEN StripTrailingSlashes(SubSeq(s, 1, Len(s) - 1))
    ELSE s

\* PurePosixPath(name).name: the last component of the path
PathName(s) ==
    LET t == StripTrailingSlashes(s)
    IN  Drop(t, RFind(t, "/") + 1)

\* PurePosixPath(name).suffix: from the last dot of the last component on,
\* unless that dot is its first or its last character
PathSuffix(s) ==
    LET name == PathName(s)
        i    == RFind(name, ".")
    IN  IF 0 < i /\ i < Len(name) - 1 THEN Drop(name, i) ELSE <<>>

SourceSuffixes ==
    { <<".","p","y">>, <<".","j","s">>, <<".","t","s">>,
      <<".","j","s","x">>, <<".","t","s","x">> }

TestWord == <<"t","e","s","t">>
SpecWord == <<"s","p","e","c">>

RECURSIVE CoverageScanSuffixFirst(_, _, _, _)
CoverageScanSuffixFirst(fs, i, src_changed, test_found) ==
    IF i > Len(fs) THEN [src_changed |-> src_changed, test_found |-> test_found]
    ELSE LET name == fs[i].filename
         IN  IF IsExcluded(name)
             THEN CoverageScanSuffixFirst(fs, i + 1, src_changed, test_found)
             ELSE IF fs[i].status \in {"added", "modified"}
             THEN IF PathSuffix(name) \in SourceSuffixes
                  THEN CoverageScanSuffixFirst(fs, i + 1, TRUE, test_found)
                  ELSE IF Contains(Lower(name), TestWord) \/ Contains(Lower(name), SpecWord)
                  THEN CoverageScanSuffixFirst(fs, i + 1, src_changed, TRUE)
                  ELSE CoverageScanSuffixFirst(fs, i + 1, src_changed, test_found)
             ELSE CoverageScanSuffixFirst(fs, i + 1, src_changed, test_found)

RECURSIVE CoverageScan(_, _, _, _)
\* the loop of lines 110-119: the two flags after the files from i on
CoverageScan(fs, i, src_changed, test_found) ==
    IF i > Len(fs) THEN [src_changed |-> src_changed, test_found |-> test_found]
    ELSE LET name == fs[i].filename
         IN  IF IsExcluded(name)
             THEN CoverageScan(fs, i + 1, src_changed, test_found)
             ELSE IF fs[i].status \in {"added", "modified"}
             THEN IF Contains(Lower(name), TestWord) \/ Contains(Lower(name), SpecWord)
                  THEN CoverageScan(fs, i + 1, src_changed, TRUE)
                  ELSE IF PathSuffix(name) \in SourceSuffixes
                  THEN CoverageScan(fs, i + 1, TRUE, test_found)
                  ELSE CoverageScan(fs, i + 1, src_changed, test_found)
             ELSE CoverageScan(fs, i + 1, src_changed, test_found)

CoverageMessage ==
    <<"- ", WarnSign,
      " Source files were changed but **no test files** were added or modified. Please add tests for new functionality.">>

check_test_coverage_suffix_first(fs, require_tests) ==
    IF ~require_tests THEN <<>>
    ELSE LET r == CoverageScanSuffixFirst(fs, 1, FALSE, FALSE)
         IN  IF r.src_changed /\ ~r.test_found THEN <<CoverageMessage>> ELSE <<>>
_check_test_coverage(fs, require_tests) ==
    IF ~require_tests THEN <<>>
    ELSE LET r == CoverageScan(fs, 1, FALSE, FALSE)
         IN  IF r.src_changed /\ ~r.test_found THEN <<CoverageMessage>> ELSE <<>>

-----------------------------------------------------------------------------
(* Inputs of the parser's specification                                    *)

MaxDiffLines == 4

H_app     == HeaderPrefix \o <<"a",".","p","y">>
H_robodev == HeaderPrefix \o <<"r","o","b","o","d","e","v","/","a",".","p","y">>
H_github  == HeaderPrefix \o <<".","g","i","t","h","u","b","/","w">>
H_agents  == HeaderPrefix \o <<"A","G","E","N","T","S",".","m","d">>
H_nopath  == HeaderPrefix
L_plus3   == <<"+","+","+","e">>
L_added   == <<"+","e">>
L_removed == <<"-","e">>
L_hunk    == <<"@","@"," ","e">>

ParseLineKinds ==
    {H_app, H_robodev, H_github, H_agents, H_nopath, L_plus3, L_added,
     L_removed, L_hunk}

SeqsUpTo(S, n) == UNION {[1..k -> S] : k \in 0..n}

ParseDiffs == {JoinWith(<<NL>>, ls) : ls \in SeqsUpTo(ParseLineKinds, MaxDiffLines)}

IdleLocals ==
    /\ ai_summary = None /\ body_lines = <<>> /\ has_errors = FALSE
    /\ event = "" /\ ret = -1 /\ reviews = <<>>
IdleRun ==
    /\ files = <<>> /\ cfg = <<>> /\ arg = <<>> /\ issues = <<>> /\ raised = ""
    /\ IdleLocals
IdleScan ==
    /\ lines = <<>> /\ pos = 0 /\ current_file = None /\ results = <<>>
IdleGates ==
    /\ comments = <<>> /\ env = <<>>

InitParse ==
    /\ pc = "parse_call"
    /\ diff \in ParseDiffs
    /\ IdleRun /\ IdleScan /\ IdleGates

\* reviewer.py:52-54
ParseBegin ==
    /\ pc = "parse_call"
    /\ pc' = "parse_scan"
    /\ lines' = Splitlines(diff)
    /\ pos' = 0
    /\ current_file' = None
    /\ results' = <<>>
    /\ UNCHANGED <<diff, runVars, gateVars>>

\* reviewer.py:54-65, one line of the diff
ParseStep ==
    /\ pc = "parse_scan"
    /\ pos < Len(lines)
    /\ LET st == ParseLine(current_file, results, lines[pos + 1])
       IN  /\ current_file' = st.cur
           /\ results' = st.res
    /\ pos' = pos + 1
    /\ UNCHANGED <<pc, diff, lines, runVars, gateVars>>

\* reviewer.py:66
ParseReturn ==
    /\ pc = "parse_scan"
    /\ pos = Len(lines)
    /\ pc' = "parse_ret"
    /\ UNCHANGED <<diff, scanVars, runVars, gateVars>>

NextParse == ParseBegin \/ ParseStep \/ ParseReturn

SpecParse == InitParse /\ [][NextParse]_vars

-----------------------------------------------------------------------------
(* The detectors called on their own                                       *)

MaxSizeFiles == 3
DefaultMaxChanged == 500

N_app   == <<"a",".","p","y">>
N_lib   == <<"b",".","p","y">>

SizeFileKinds ==
    {[filename |-> n, status |-> "modified", changes |-> c] :
        n \in {N_app, N_lib}, c \in {0, DefaultMaxChanged, DefaultMaxChanged + 1}}
    \cup {[filename |-> n, status |-> "modified"] : n \in {N_app, N_lib}}

InitSize ==
    /\ pc = "size_call"
    /\ files \in SeqsUpTo(SizeFileKinds, MaxSizeFiles)
    /\ arg \in {0, DefaultMaxChanged}
    /\ diff = <<>> /\ cfg = <<>> /\ issues = <<>> /\ raised = ""
    /\ IdleLocals /\ IdleScan /\ IdleGates

CallSize ==
    /\ pc = "size_call"
    /\ pc' = "size_ret"
    /\ issues' = _check_file_size(files, arg)
    /\ UNCHANGED <<files, diff, cfg, arg, raised, runLocals, scanVars, gateVars>>

NextSize == CallSize

SpecSize == InitSize /\ [][NextSize]_vars

MaxCovFiles == 2

CovNames ==
    { N_app,
      <<"a",".","t","s","x">>,
      <<"a",".","m","d">>,
      <<"a",".","P","Y">>,
      <<"t","/",".","p","y">>,
      <<"T","E","S","T",".","p","y">>,
      <<"s","p","e","c",".","m","d">>,
      <<"r","o","b","o","d","e","v","/","a",".","p","y">>,
      <<".","g","i","t","h","u","b","/","t","e","s","t">> }

Statuses == {"added", "modified", "removed", "renamed"}

CovFileKinds == {[filename |-> n, status |-> st] : n \in CovNames, st \in Statuses}

InitCov ==
    /\ pc = "cov_call"
    /\ files \in SeqsUpTo(CovFileKinds, MaxCovFiles)
    /\ arg \in BOOLEAN
    /\ diff = <<>> /\ cfg = <<>> /\ issues = <<>> /\ raised = ""
    /\ IdleLocals /\ IdleScan /\ IdleGates

CallCov ==
    /\ pc = "cov_call"
    /\ pc' = "cov_ret"
    /\ issues' = _check_test_coverage(files, arg)
    /\ UNCHANGED <<files, diff, cfg, arg, raised, runLocals, scanVars, gateVars>>

NextCov == CallCov

SpecCov == InitCov /\ [][NextCov]_vars

MaxBannedLines == 2
MaxBannedPatterns == 2

T_e    == <<"e">>
T_ee   == <<"e","e">>
T_long == [i \in 1..(TruncateAt + 1) |-> "x"]
T_open == <<"(">>
T_lab  == <<"L">>

BannedLineKinds == {H_app, Plus \o T_e, Plus \o T_ee \o T_e, Plus \o T_long}

BannedEntryKinds ==
    { [regex |-> T_e, label |-> T_lab, severity |-> "error"],
      [regex |-> T_ee],
      [regex |-> T_e, severity |-> "info"],
      [regex |-> T_long, label |-> T_lab, severity |-> "warning"],
      [regex |-> T_open, severity |-> "error"],
      [label |-> T_lab] }

InitBanned ==
    /\ pc = "banned_call"
    /\ diff \in {JoinWith(<<NL>>, ls) : ls \in SeqsUpTo(BannedLineKinds, MaxBannedLines)}
    /\ arg \in SeqsUpTo(BannedEntryKinds, MaxBannedPatterns)
    /\ files = <<>> /\ cfg = <<>> /\ issues = <<>> /\ raised = ""
    /\ IdleLocals /\ IdleScan /\ IdleGates

CallBanned ==
    /\ pc = "banned_call"
    /\ LET r == _check_banned_patterns(diff, arg)
       IN  /\ issues' = r.out
           /\ raised' = r.raised
           /\ pc' = IF r.raised = "" THEN "banned_ret" ELSE "banned_raised"
    /\ UNCHANGED <<files, diff, cfg, arg, runLocals, scanVars, gateVars>>

NextBanned == CallBanned

SpecBanned == InitBanned /\ [][NextBanned]_vars

-----------------------------------------------------------------------------
(* reviewer.run, reviewer.py:188-248                                       *)

MaxRunFiles == 1
MaxRunPatterns == 2
DefaultMaxFiles == 20

N_marked == <<CrossMark, ".", "p", "y">>
N_test   == <<"t","e","s","t",".","p","y">>

RunFileKinds ==
    { [filename |-> N_app,    status |-> "modified", changes |-> DefaultMaxChanged + 1],
      [filename |-> N_marked, status |-> "added",    changes |-> DefaultMaxChanged + 1],
      [filename |-> N_test,   status |-> "added",    changes |-> 0] }

RunDiffs ==
    { <<>>,
      JoinWith(<<NL>>, <<H_app, L_added>>),
      JoinWith(<<NL>>, <<H_app, L_added, L_removed, L_added>>),
      JoinWith(<<NL>>, <<H_robodev, L_added>>) }

RunEntryKinds ==
    { [regex |-> T_e, label |-> T_lab, severity |-> "error"],
      [regex |-> T_e],
      [regex |-> T_open, severity |-> "error"] }

\* the code_review section of config.yml: every key may be absent
ReviewCfgs ==
    { [k \in keys \cup (IF bp = <<>> THEN {} ELSE {"banned_patterns"}) |->
          CASE k = "max_files_per_pr" -> 0
            [] k = "require_tests"    -> FALSE
            [] k = "banned_patterns"  -> bp] :
      keys \in SUBSET {"max_files_per_pr", "require_tests"},
      bp \in SeqsUpTo(RunEntryKinds, MaxRunPatterns) }

RunCfgs ==
    {[code_review |-> r] : r \in ReviewCfgs}
    \cup {[code_review |-> r, ai_review |-> [enabled |-> TRUE]] : r \in ReviewCfgs}

\* what _ai_review can return (reviewer.py:131-183): None without a key or
\* without the openai package, else the model's text, which may be empty
AiTexts == { <<>>, <<"L","G","T","M">> }

review_cfg == Get(cfg, "code_review", <<>>)

\* list.extend
ExtendAtFront(list, more) == more \o list
Extend(list, more) == list \o more

\* any("x-mark" in i for i in issues), reviewer.py:232
HasErrorsAll(list) == list # <<>> /\ \A i \in 1..Len(list) : Contains1(list[i], CrossMark)
HasErrors(list) == \E i \in 1..Len(list) : Contains1(list[i], CrossMark)

Header        == <<"## RoboDev Code Review\n">>
RuleHeading   == <<"### Rule-Based Findings\n">>
AiHeading     == <<"### AI-Powered Review\n">>
AllClear      == <<"No issues detected - looking good!\n">>
BannerChanges == <<"\n> **Requesting changes** - please address the errors above.">>
BannerComment == <<"\n> Review complete. A human reviewer should still approve this PR.">>

InitRun ==
    /\ pc = "start"
    /\ diff = <<>>
    /\ IdleRun /\ IdleScan /\ IdleGates

\* reviewer.py:189-195
Fetch ==
    /\ pc = "start"
    /\ cfg' \in RunCfgs
    /\ files' \in SeqsUpTo(RunFileKinds, MaxRunFiles)
    /\ diff' \in RunDiffs
    /\ issues' = <<>>
    /\ pc' = "size"
    /\ UNCHANGED <<arg, raised, runLocals, scanVars, gateVars>>

\* reviewer.py:192-193: raise_for_status in get_pr_files or get_pr_diff
FetchFails ==
    /\ pc = "start"
    /\ raised' = "HTTPError"
    /\ pc' = "aborted"
    /\ UNCHANGED <<files, diff, cfg, arg, issues, runLocals, scanVars, gateVars>>

\* reviewer.py:198-199
CheckSize ==
    /\ pc = "size"
    /\ issues' = Extend(issues, _check_file_size(files,
                     Get(review_cfg, "max_changed_lines_per_file", DefaultMaxChanged)))
    /\ pc' = "count"
    /\ UNCHANGED <<files, diff, cfg, arg, raised, runLocals, scanVars, gateVars>>

\* reviewer.py:201-202
CheckLargePr ==
    /\ pc = "count"
    /\ issues' = Extend(issues, _check_large_pr(files,
                     Get(review_cfg, "max_files_per_pr", DefaultMaxFiles)))
    /\ pc' = "banned"
    /\ UNCHANGED <<files, diff, cfg, arg, raised, runLocals, scanVars, gateVars>>

\* reviewer.py:204-205; an re.error leaves run through no handler
CheckBanned ==
    /\ pc = "banned"
    /\ LET r == _check_banned_patterns(diff, Get(review_cfg, "banned_patterns", <<>>))
       IN  IF r.raised = ""
           THEN /\ issues' = Extend(issues, r.out)
                /\ pc' = "tests"
                /\ UNCHANGED raised
           ELSE /\ raised' = r.raised
                /\ pc' = "aborted"
                /\ UNCHANGED issues
    /\ UNCHANGED <<files, diff, cfg, arg, runLocals, scanVars, gateVars>>

\* reviewer.py:207-208
CheckTests ==
    /\ pc = "tests"
    /\ issues' = Extend(issues, _check_test_coverage(files,
                     Get(review_cfg, "require_tests", TRUE)))
    /\ pc' = "ai"
    /\ UNCHANGED <<files, diff, cfg, arg, raised, runLocals, scanVars, gateVars>>

AiEnabled == Get(Get(cfg, "ai_review", <<>>), "enabled", FALSE)

\* reviewer.py:211-212, AI review not enabled
AiSkipped ==
    /\ pc = "ai"
    /\ ~AiEnabled
    /\ ai_summary' = None
    /\ pc' = "build"
    /\ UNCHANGED <<files, diff, cfg, arg, issues, raised, body_lines, has_errors,
                   event, ret, reviews, scanVars, gateVars>>

\* reviewer.py:213, _ai_review returns None or the text
AiReturns ==
    /\ pc = "ai"
    /\ AiEnabled
    /\ ai_summary' \in {None} \cup AiTexts
    /\ pc' = "build"
    /\ UNCHANGED <<files, diff, cfg, arg, issues, raised, body_lines, has_errors,
                   event, ret, reviews, scanVars, gateVars>>

\* reviewer.py:166-183, the API call raises: only ImportError is caught
AiRaises ==
    /\ pc = "ai"
    /\ AiEnabled
    /\ raised' = "APIError"
    /\ pc' = "aborted"
    /\ UNCHANGED <<files, diff, cfg, arg, issues, runLocals, scanVars, gateVars>>

\* reviewer.py:216-238, with the AI section placed before the findings
BuildBodyAiFirst ==
    /\ pc = "build"
    /\ has_errors' = HasErrors(issues)
    /\ event' = IF HasErrors(issues) THEN "REQUEST_CHANGES" ELSE "COMMENT"
    /\ body_lines' =
           <<Header>>
           \o (IF Truthy(ai_summary) THEN <<AiHeading, ai_summary, <<>> >> ELSE <<>>)
           \o (IF issues # <<>> THEN <<RuleHeading>> \o issues \o << <<>> >> ELSE <<>>)
           \o (IF issues = <<>> /\ ~Truthy(ai_summary) THEN <<AllClear>> ELSE <<>>)
           \o (IF HasErrors(issues) THEN <<BannerChanges>> ELSE <<BannerComment>>)
    /\ pc' = "post"
    /\ UNCHANGED <<files, diff, cfg, arg, issues, raised, ai_summary, ret, reviews,
                   scanVars, gateVars>>
\* reviewer.py:216-238
BuildBody ==
    /\ pc = "build"
    /\ has_errors' = HasErrors(issues)
    /\ event' = IF HasErrors(issues) THEN "REQUEST_CHANGES" ELSE "COMMENT"
    /\ body_lines' =
           <<Header>>
           \o (IF issues # <<>> THEN <<RuleHeading>> \o issues \o << <<>> >> ELSE <<>>)
           \o (IF Truthy(ai_summary) THEN <<AiHeading, ai_summary, <<>> >> ELSE <<>>)
           \o (IF issues = <<>> /\ ~Truthy(ai_summary) THEN <<AllClear>> ELSE <<>>)
           \o (IF HasErrors(issues) THEN <<BannerChanges>> ELSE <<BannerComment>>)
    /\ pc' = "post"
    /\ UNCHANGED <<files, diff, cfg, arg, issues, raised, ai_summary, ret, reviews,
                   scanVars, gateVars>>

\* reviewer.py:240-241
PostReviewAgain ==
    /\ pc = "post"
    /\ reviews' = Append(reviews, [event |-> event, body |-> JoinWith(<<NL>>, body_lines)])
    /\ pc' = IF reviews = <<>> THEN "post" ELSE "return"
    /\ UNCHANGED <<files, diff, cfg, arg, issues, raised, ai_summary, body_lines,
                   has_errors, event, ret, scanVars, gateVars>>
PostReview ==
    /\ pc = "post"
    /\ reviews' = Append(reviews, [event |-> event, body |-> JoinWith(<<NL>>, body_lines)])
    /\ pc' = "return"
    /\ UNCHANGED <<files, diff, cfg, arg, issues, raised, ai_summary, body_lines,
                   has_errors, event, ret, scanVars, gateVars>>

\* github_client.py:114-116, the POST is refused
PostFails ==
    /\ pc = "post"
    /\ raised' = "HTTPError"
    /\ pc' = "aborted"
    /\ UNCHANGED <<files, diff, cfg, arg, issues, runLocals, scanVars, gateVars>>

\* reviewer.py:243-248
Return ==
    /\ pc = "return"
    /\ ret' = IF has_errors THEN 1 ELSE 0
    /\ pc' = "done"
    /\ UNCHANGED <<files, diff, cfg, arg, issues, raised, ai_summary, body_lines,
                   has_errors, event, reviews, scanVars, gateVars>>

Next ==
    \/ Fetch \/ FetchFails
    \/ CheckSize \/ CheckLargePr \/ CheckBanned \/ CheckTests
    \/ AiSkipped \/ AiReturns \/ AiRaises
    \/ BuildBody \/ PostReview \/ PostFails \/ Return

Spec == InitRun /\ [][Next]_vars

-----------------------------------------------------------------------------
(* The three file-list detectors called on one file list                   *)

MaxExclFiles == 2

N_robodev == <<"r","o","b","o","d","e","v","/","a",".","p","y">>
N_github  == <<".","g","i","t","h","u","b","/","a",".","j","s">>

ExclFileKinds ==
    {[filename |-> n, status |-> st, changes |-> c] :
        n \in {N_app, N_robodev, N_github, N_test},
        st \in {"modified", "removed"},
        c \in {0, DefaultMaxChanged + 1}}

InitExcl ==
    /\ pc = "excl_call"
    /\ files \in SeqsUpTo(ExclFileKinds, MaxExclFiles)
    /\ arg \in {[max_changed |-> DefaultMaxChanged, max_files |-> 1, require_tests |-> rt] :
                    rt \in BOOLEAN}
    /\ diff = <<>> /\ cfg = <<>> /\ issues = <<>> /\ raised = ""
    /\ IdleLocals /\ IdleScan /\ IdleGates

ExclSize ==
    /\ pc = "excl_call"
    /\ pc' = "excl_size_ret"
    /\ issues' = _check_file_size(files, arg.max_changed)
    /\ UNCHANGED <<files, diff, cfg, arg, raised, runLocals, scanVars, gateVars>>

ExclLargePr ==
    /\ pc = "excl_call"
    /\ pc' = "excl_count_ret"
    /\ issues' = _check_large_pr(files, arg.max_files)
    /\ UNCHANGED <<files, diff, cfg, arg, raised, runLocals, scanVars, gateVars>>

ExclTests ==
    /\ pc = "excl_call"
    /\ pc' = "excl_cov_ret"
    /\ issues' = _check_test_coverage(files, arg.require_tests)
    /\ UNCHANGED <<files, diff, cfg, arg, raised, runLocals, scanVars, gateVars>>

NextExcl == ExclSize \/ ExclLargePr \/ ExclTests

SpecExcl == InitExcl /\ [][NextExcl]_vars

-----------------------------------------------------------------------------
(* post_pr_comment, github_client.py:44-76                                 *)
(* A comment is a record with an id and, unless GitHub sends none, a body; *)
(* a body is a sequence of tokens in which the marker is one token.        *)

Marker == "<!-- robodev-summary -->"

\* comment.get("body") or ""
BodyOrEmpty(comment) ==
    LET b == Get(comment, "body", None) IN IF Truthy(b) THEN b ELSE <<>>

\* marker in (comment.get("body") or "")
HasMarker(comment) == Contains1(BodyOrEmpty(comment), Marker)

\* f"{marker}\n{body}"
body_with_marker(body) == <<Marker, NL>> \o body

\* the id GitHub gives a comment created by POST
FreshId(cs) ==
    1 + (IF cs = <<>> THEN 0
         ELSE CHOOSE n \in {cs[i].id : i \in 1..Len(cs)} :
                  \A i \in 1..Len(cs) : cs[i].id <= n)

\* every call creates a comment, whether or not one carries the marker
post_pr_comment_always_create(cs, body) ==
    Append(cs, [id |-> FreshId(cs), body |-> body_with_marker(body)])

\* the comments after a call in which every request succeeds: the first
\* comment that has the marker is patched, and if none has it one is created
post_pr_comment(cs, body) ==
    LET marked == {i \in 1..Len(cs) : HasMarker(cs[i])}
    IN  IF marked # {}
        THEN LET i == CHOOSE i \in marked : \A j \in marked : i <= j
             IN  [cs EXCEPT ![i] = [id |-> cs[i].id, body |-> body_with_marker(body)]]
        ELSE Append(cs, [id |-> FreshId(cs), body |-> body_with_marker(body)])

-----------------------------------------------------------------------------
(* summary.run, summary.py:28-60                                           *)
(* A gate's result is one token of the text.                               *)

CheckMark    == "U+2705"
SkipMark     == "U+23ED"
QuestionMark == "U+2753"

_STATUS_ICONS ==
    [success |-> CheckMark, failure |-> CrossMark, cancelled |-> SkipMark,
     skipped |-> SkipMark]

_icon(result) == Get(_STATUS_ICONS, result, QuestionMark)

\* os.environ.get(name, "unknown")
EnvGet(name) == Get(env, name, "unknown")

any_passed(hygiene, jira, review) ==
    \E r \in {hygiene, jira, review} : r = "success"
all_passed(hygiene, jira, review) ==
    \A r \in {hygiene, jira, review} : r = "success"

SummaryTitle == <<"## RoboDev Review Summary\n">>
PassedHeading == <<"### ", CheckMark, " All gates passed - ready for human review!">>
NotPassedHeading ==
    <<"### ", WarnSign, " One or more gates did not pass.\n",
      "Please review the individual check results above and address any issues.">>

\* lines 35-51
SummaryLines(hygiene, jira, review) ==
    << SummaryTitle,
       <<"| Gate | Status |">>,
       <<"|------|--------|">>,
       <<"| PR Hygiene | ", _icon(hygiene), " ", hygiene, " |">>,
       <<"| Jira Validation | ", _icon(jira), " ", jira, " |">>,
       <<"| Code Review | ", _icon(review), " ", review, " |">>,
       <<>> >>
    \o (IF all_passed(hygiene, jira, review)
        THEN <<PassedHeading>> ELSE <<NotPassedHeading>>)

SummaryBody(hygiene, jira, review) ==
    JoinWith(<<NL>>, SummaryLines(hygiene, jira, review))

-----------------------------------------------------------------------------
(* The gates' calls of post_pr_comment on one PR                           *)

MaxComments == 3

B_human  == <<"L","G","T","M">>
B_quote  == <<"s","e","e"," ", Marker>>
\* hygiene_checker.py:62-75, the description is too short
HygieneBody ==
    JoinWith(<<NL>>, << <<"## PR Hygiene Report\n">>,
                        <<CrossMark, " **PR description is too short** (min ", "30",
                          " chars). ", "Please describe *what* changed and *why*.">>,
                        <<"\n> **Merge blocked** - please fix the errors above.">> >>)

\* hygiene_checker.py:57-58 and 69-75, a warning alone
HygieneWarnBody ==
    JoinWith(<<NL>>, << <<"## PR Hygiene Report\n">>,
                        <<WarnSign, " PR title contains a WIP/Draft marker.">> >>)

B_report == body_with_marker(HygieneBody)

\* what a comment already on the PR holds
CommentKinds ==
    { [body |-> B_human], [body |-> None], [body |-> <<>>],
      [body |-> B_quote], [body |-> B_report] }

Numbered(kinds) ==
    [i \in 1..Len(kinds) |->
        IF kinds[i].body = None THEN [id |-> i]
        ELSE [id |-> i, body |-> kinds[i].body]]

\* the PRs a first call can find: at most one comment has the marker
CommentLists ==
    {cs \in {Numbered(ks) : ks \in SeqsUpTo(CommentKinds, MaxComments)} :
        Cardinality({i \in 1..Len(cs) : HasMarker(cs[i])}) <= 1}

\* jira_checker.py:63-68
JiraBody ==
    <<"## Jira Validation\n\n", WarnSign,
      " No Jira ticket reference found in the PR title or description.\n",
      "Expected format: '", "P", "R", "O", "J", "-<number>'">>

GateBodies ==
    { HygieneBody, HygieneWarnBody, JiraBody,
      SummaryBody("success", "success", "success"),
      SummaryBody("success", "failure", "skipped") }

reviewVars == <<files, diff, cfg, issues, ai_summary, body_lines, has_errors, event,
                reviews>>
IdleReview ==
    /\ files = <<>> /\ diff = <<>> /\ cfg = <<>> /\ issues = <<>>
    /\ ai_summary = None /\ body_lines = <<>> /\ has_errors = FALSE
    /\ event = "" /\ reviews = <<>>

InitComment ==
    /\ pc = "pr_open"
    /\ comments \in CommentLists
    /\ arg = <<>> /\ raised = "" /\ ret = -1 /\ env = <<>>
    /\ IdleReview /\ IdleScan

\* a gate calls post_pr_comment(body) and every request succeeds
PostPrComment ==
    /\ pc \in {"pr_open", "pr_posted", "pr_failed"}
    /\ \E body \in GateBodies :
          /\ arg' = body
          /\ comments' = post_pr_comment(comments, body)
    /\ raised' = ""
    /\ pc' = "pr_posted"
    /\ UNCHANGED <<ret, env, reviewVars, scanVars>>

\* raise_for_status at github_client.py:58, 70 or 76: the request is refused
PostPrCommentFails ==
    /\ pc \in {"pr_open", "pr_posted", "pr_failed"}
    /\ \E body \in GateBodies : arg' = body
    /\ raised' = "HTTPError"
    /\ pc' = "pr_failed"
    /\ UNCHANGED <<comments, ret, env, reviewVars, scanVars>>

NextComment == PostPrComment \/ PostPrCommentFails

SpecComment == InitComment /\ [][NextComment]_vars

-----------------------------------------------------------------------------
(* summary.run on one PR                                                   *)

ResultNames == {"HYGIENE_RESULT", "JIRA_RESULT", "REVIEW_RESULT"}
ResultValues == {"success", "failure", "cancelled", "skipped", "unknown", "Success"}

\* the environments: each variable unset or set to one of the values
Envs == UNION {[names -> ResultValues] : names \in SUBSET ResultNames}

SummaryStartComments ==
    { <<>>,
      <<[id |-> 1, body |-> B_human]>>,
      <<[id |-> 1, body |-> B_human], [id |-> 2, body |-> B_report]>>,
      <<[id |-> 1, body |-> body_with_marker(SummaryBody("failure", "success", "success"))],
        [id |-> 2, body |-> B_human]>> }

InitSummary ==
    /\ pc = "sum_start"
    /\ env \in Envs
    /\ comments \in SummaryStartComments
    /\ arg = <<>> /\ raised = "" /\ ret = -1
    /\ IdleReview /\ IdleScan

\* summary.py:29-53, post_pr_comment succeeds
SummaryPost ==
    /\ pc = "sum_start"
    /\ LET hygiene == EnvGet("HYGIENE_RESULT")
           jira    == EnvGet("JIRA_RESULT")
           review  == EnvGet("REVIEW_RESULT")
       IN  /\ arg' = SummaryBody(hygiene, jira, review)
           /\ comments' = post_pr_comment(comments, SummaryBody(hygiene, jira, review))
    /\ pc' = "sum_posted"
    /\ UNCHANGED <<raised, ret, env, reviewVars, scanVars>>

\* summary.py:53, post_pr_comment raises
SummaryPostFails ==
    /\ pc = "sum_start"
    /\ raised' = "HTTPError"
    /\ pc' = "aborted"
    /\ UNCHANGED <<comments, arg, ret, env, reviewVars, scanVars>>

\* summary.py:55-60
SummaryReturn ==
    /\ pc = "sum_posted"
    /\ ret' = IF ~all_passed(EnvGet("HYGIENE_RESULT"), EnvGet("JIRA_RESULT"),
                             EnvGet("REVIEW_RESULT"))
              THEN 1 ELSE 0
    /\ pc' = "sum_done"
    /\ UNCHANGED <<comments, arg, raised, env, reviewVars, scanVars>>

NextSummary == SummaryPost \/ SummaryPostFails \/ SummaryReturn

SpecSummary == InitSummary /\ [][NextSummary]_vars

-----------------------------------------------------------------------------
(* Claims about the parser                                                 *)

IsHeader(l) == StartsWith(l, HeaderPrefix)
HeaderPath(l) == Drop(l, 6)
IsAddedLine(l) == Len(l) >= 1 /\ l[1] = "+" /\ ~(Len(l) >= 3 /\ l[2] = "+" /\ l[3] = "+")
ExcludedByName(p) ==
    \/ StartsWith(p, <<"r","o","b","o","d","e","v","/">>)
    \/ StartsWith(p, <<".","g","i","t","h","u","b","/">>)
    \/ StartsWith(p, <<"A","G","E","N","T","S",".","m","d">>)

\* the index of the last header line among ls[1..i-1], 0 when there is none
LastHeaderBefore(ls, i) ==
    LET hs == {j \in 1..(i - 1) : IsHeader(ls[j])}
    IN  IF hs = {} THEN 0 ELSE CHOOSE j \in hs : \A h \in hs : h <= j

\* the cursor as the specification describes it: set by every header whose
\* path is not excluded
CursorSetAsStated(ls, i) ==
    LET j == LastHeaderBefore(ls, i)
    IN  j > 0 /\ ~ExcludedByName(HeaderPath(ls[j]))

\* the cursor as the code tests it: a header with an empty path leaves it unset
CursorSetNonEmpty(ls, i) ==
    CursorSetAsStated(ls, i) /\ HeaderPath(ls[LastHeaderBefore(ls, i)]) # <<>>

\* the k-th smallest element of a set of indexes
KthOf(S, k) == CHOOSE i \in S : Cardinality({j \in S : j <= i}) = k

EntriesFor(ls, E) ==
    [k \in 1..Cardinality(E) |->
        LET i == KthOf(E, k)
        IN  <<HeaderPath(ls[LastHeaderBefore(ls, i)]), Drop(ls[i], 1)>>]

\* C3: when _parse_added_lines returns, its result is, in diff order, exactly
\* one (cursor, line without its first '+') entry for every line that begins
\* with '+', not with '+++', and follows a '+++ b/<path>' header whose <path>
\* starts with no excluded prefix (the latest header deciding); nothing else
\* is in the result.
C3_ExactEntries ==
    pc = "parse_ret" =>
        results = EntriesFor(lines,
            {i \in 1..Len(lines) : IsAddedLine(lines[i]) /\ CursorSetAsStated(lines, i)})

\* The same with the cursor counted as set only by a non-empty path: what the
\* code computes.
ParseExactNonEmptyPath ==
    pc = "parse_ret" =>
        results = EntriesFor(lines,
            {i \in 1..Len(lines) : IsAddedLine(lines[i]) /\ CursorSetNonEmpty(lines, i)})

C4_StateInv ==
    pc \in {"parse_scan", "parse_ret"} =>
        /\ \A k \in 1..Len(results) :
              /\ ~ExcludedByName(results[k][1])
              /\ \E j \in 1..pos : IsHeader(lines[j]) /\ HeaderPath(lines[j]) = results[k][1]
        /\ (LastHeaderBefore(lines, pos + 1) = 0 => results = <<>>)

C4_Step ==
    (pc = "parse_scan" /\ pos' = pos + 1) =>
        LET j == LastHeaderBefore(lines, pos + 1)
        IN  /\ results' # results =>
                /\ j > 0
                /\ ~ExcludedByName(HeaderPath(lines[j]))
                /\ results' = Append(results, <<HeaderPath(lines[j]), Drop(lines[pos + 1], 1)>>)
            /\ (j = 0 \/ (j > 0 /\ ExcludedByName(HeaderPath(lines[j])))) => results' = results

\* C4: at every step of the scan every emitted entry carries the path of the
\* most recent preceding '+++ b/' header, and that path starts with no
\* excluded prefix; nothing is emitted before the first header, nor after a
\* header with an excluded path until the next header.
C4_CursorDiscipline == [](C4_StateInv) /\ [][C4_Step]_vars

C4_Witness ==
    /\ pc = "parse_ret"
    /\ lines = <<H_robodev, L_added, H_app, L_added>>
    /\ results = << <<<<"a",".","p","y">>, <<"e">>>> >>

-----------------------------------------------------------------------------
(* Claims about the detectors                                              *)

Severity(m) == IF m[2] = CrossMark THEN "error" ELSE "warning"

\* the files whose changed-line count is given and exceeds the threshold
OverThreshold ==
    {i \in 1..Len(files) : "changes" \in DOMAIN files[i] /\ files[i].changes > arg}

\* C8: _check_file_size returns exactly one warning finding per file whose
\* changed-line count is strictly greater than the threshold, in file-list
\* order, naming the file, its count and the threshold, and nothing for a
\* file whose count is equal, lower or missing.
C8_SizeExact ==
    pc = "size_ret" =>
        /\ Len(issues) = Cardinality(OverThreshold)
        /\ \A k \in 1..Len(issues) :
              LET f == files[KthOf(OverThreshold, k)]
              IN  /\ Severity(issues[k]) = "warning"
                  /\ issues[k][2] = WarnSign
                  /\ SubSeq(issues[k], 4, 3 + Len(f.filename)) = f.filename
                  /\ Contains1(issues[k], ToString(f.changes))
                  /\ Contains1(issues[k], ToString(arg))

C8_Witness ==
    /\ pc = "size_ret"
    /\ arg = 500
    /\ Len(files) = 3
    /\ files[1] = [filename |-> N_app, status |-> "modified", changes |-> 500]
    /\ files[2] = [filename |-> N_lib, status |-> "modified", changes |-> 501]
    /\ files[3] = [filename |-> N_app, status |-> "modified"]
    /\ Len(issues) = 1
    /\ Contains1(issues[1], "501") /\ Contains1(issues[1], "500")

NamedLikeTest(name) ==
    \E i \in 1..(Len(name) - 3) :
        \/ /\ name[i] \in {"t", "T"} /\ name[i + 1] \in {"e", "E"}
           /\ name[i + 2] \in {"s", "S"} /\ name[i + 3] \in {"t", "T"}
        \/ /\ name[i] \in {"s", "S"} /\ name[i + 1] \in {"p", "P"}
           /\ name[i + 2] \in {"e", "E"} /\ name[i + 3] \in {"c", "C"}

EndsWith(s, e) == Len(s) >= Len(e) /\ SubSeq(s, Len(s) - Len(e) + 1, Len(s)) = e

\* the file's name proper (not only a leading dot) is followed by one of the
\* five extensions
HasSourceExtension(name) ==
    \E e \in { <<".","p","y">>, <<".","j","s">>, <<".","t","s">>,
               <<".","j","s","x">>, <<".","t","s","x">> } :
        /\ EndsWith(name, e)
        /\ Len(name) > Len(e)
        /\ name[Len(name) - Len(e)] # "/"

Counted(f) == ~ExcludedByName(f.filename) /\ f.status \in {"added", "modified"}

\* C7: _check_test_coverage returns exactly one warning finding if
\* require_tests is true, some non-excluded added or modified file has a
\* source extension and is not test-named, and no non-excluded added or
\* modified file is test-named; in every other case it returns no finding.
C7_CoverageExact ==
    pc = "cov_ret" =>
        IF /\ arg = TRUE
           /\ \E i \in 1..Len(files) :
                 /\ Counted(files[i])
                 /\ HasSourceExtension(files[i].filename)
                 /\ ~NamedLikeTest(files[i].filename)
           /\ ~\E i \in 1..Len(files) :
                 Counted(files[i]) /\ NamedLikeTest(files[i].filename)
        THEN Len(issues) = 1 /\ Severity(issues[1]) = "warning"
        ELSE issues = <<>>

C7_Witness ==
    /\ pc = "cov_ret"
    /\ arg = TRUE
    /\ files = <<[filename |-> N_app, status |-> "modified"],
                 [filename |-> <<"T","E","S","T",".","p","y">>, status |-> "removed"]>>
    /\ Len(issues) = 1

\* The banned-pattern detector as the specification describes it: an entry
\* whose regex does not compile is skipped, every other entry gives one
\* finding per non-overlapping match, leftmost first.
AddedText ==
    LET al == _parse_added_lines(diff)
    IN  JoinWith(<<NL>>, [k \in 1..Len(al) |-> al[k][2]])

OccursAt(text, lit, p) ==
    /\ p >= 1 /\ p + Len(lit) <= Len(text) + 1
    /\ \A i \in 1..Len(lit) : text[p + i - 1] = lit[i]

RECURSIVE StartsFrom(_, _, _)
StartsFrom(lit, text, p) ==
    LET ps == {q \in p..Len(text) : OccursAt(text, lit, q)}
    IN  IF ps = {} THEN {}
        ELSE LET q == CHOOSE q \in ps : \A r \in ps : q <= r
             IN  {q} \cup StartsFrom(lit, text, q + Len(lit))

\* where the non-overlapping matches of the literal start, the leftmost
\* first and each next one at or after the end of the one before
MatchStarts(lit, text) ==
    IF lit = <<>> THEN 1..(Len(text) + 1) ELSE StartsFrom(lit, text, 1)

FindingAsStated(m, entry) ==
    LET regex == IF "regex" \in DOMAIN entry THEN entry.regex ELSE <<>>
        label == IF "label" \in DOMAIN entry THEN entry.label ELSE regex
        shown == SubSeq(m, 5 + Len(label), Len(m) - 1)
    IN  /\ (Severity(m) = "error") <=>
               ("severity" \in DOMAIN entry /\ entry.severity = "error")
        /\ m[2] \in {CrossMark, WarnSign}
        /\ SubSeq(m, 4, 3 + Len(label)) = label
        /\ Len(shown) <= 80
        /\ Len(shown) <= Len(regex)
        /\ shown = SubSeq(regex, 1, Len(shown))
        /\ (Len(regex) <= 80 => shown = regex)
        /\ (Len(regex) > 80 => Len(shown) = 80)

BannedAsStated ==
    LET al   == _parse_added_lines(diff)
        text == AddedText
        cnt  == [k \in 1..Len(arg) |->
                    LET regex == IF "regex" \in DOMAIN arg[k] THEN arg[k].regex ELSE <<>>
                    IN  IF al = <<>> \/ Contains1(regex, "(") THEN 0
                        ELSE Cardinality(MatchStarts(regex, text))]
        off[k \in 0..Len(arg)] == IF k = 0 THEN 0 ELSE off[k - 1] + cnt[k]
    IN  /\ Len(issues) = off[Len(arg)]
        /\ \A n \in 1..Len(issues) :
              \E k \in 1..Len(arg) :
                  /\ off[k - 1] < n /\ n <= off[k]
                  /\ FindingAsStated(issues[n], arg[k])

\* C5: for every added-line sequence and pattern list _check_banned_patterns
\* emits, pattern by pattern in configured order, one finding per
\* non-overlapping match in the newline-joined added text, an error finding
\* exactly for severity "error", showing at most the first 80 characters of
\* the match, without deduplication; no patterns or no added lines give none.
C5_BannedExact ==
    pc \in {"banned_ret", "banned_raised"} => BannedAsStated

\* The same whenever every configured regex compiles.
BannedExactWhenAllCompile ==
    (pc = "banned_ret" /\ \A k \in 1..Len(arg) : RegexCompiles(Get(arg[k], "regex", <<>>)))
        => BannedAsStated

-----------------------------------------------------------------------------
(* Claims about reviewer.run                                               *)

AfterVerdict == pc \in {"post", "return", "done"}

SomeErrorFinding == \E i \in 1..Len(issues) : Severity(issues[i]) = "error"

\* C1: if any finding in run's list has severity error, the event handed to
\* create_review is REQUEST_CHANGES and run returns 1, however many warning
\* findings are in the list as well.
C1_ErrorForcesRequestChanges ==
    (AfterVerdict /\ SomeErrorFinding) =>
        /\ event = "REQUEST_CHANGES"
        /\ (pc \in {"return", "done"} => reviews[Len(reviews)].event = "REQUEST_CHANGES")
        /\ (pc = "done" => ret = 1)

C1_Witness ==
    /\ pc = "done" /\ ret = 1
    /\ \A i \in 1..Len(files) : ~Contains1(files[i].filename, CrossMark)
    /\ Cardinality({i \in 1..Len(issues) : Severity(issues[i]) = "error"}) = 1
    /\ Cardinality({i \in 1..Len(issues) : Severity(issues[i]) = "warning"}) >= 3
    /\ reviews[1].event = "REQUEST_CHANGES"

\* C2: the verdict depends only on whether some finding has severity error:
\* without one the event is COMMENT and run returns 0, whatever the file
\* names, added text and labels are; the event is REQUEST_CHANGES or COMMENT
\* and the exit code is 1 exactly for REQUEST_CHANGES.
C2_VerdictFollowsSeverity ==
    AfterVerdict =>
        /\ event \in {"REQUEST_CHANGES", "COMMENT"}
        /\ (~SomeErrorFinding => event = "COMMENT")
        /\ (pc = "done" => /\ (ret = 1 <=> event = "REQUEST_CHANGES")
                           /\ ret \in {0, 1}
                           /\ (~SomeErrorFinding => ret = 0))

\* C6: a configured pattern whose regex is invalid is skipped: the run does
\* not end with the regex error, it goes on to post its review.
C6_InvalidRegexSkipped ==
    ~(pc = "aborted" /\ raised = "re.error")

DetectorRank(m) ==
    CASE m[3] = " '"                    -> 1
      [] m[3] = " This PR modifies **"  -> 2
      [] m[3] = " **"                   -> 3
      [] OTHER                          -> 4

IsPrefixOf(a, b) == Len(a) <= Len(b) /\ SubSeq(b, 1, Len(a)) = a

DetectorsInOrder ==
    _check_file_size(files, Get(review_cfg, "max_changed_lines_per_file", 500))
    \o _check_large_pr(files, Get(review_cfg, "max_files_per_pr", 20))
    \o _check_banned_patterns(diff, Get(review_cfg, "banned_patterns", <<>>)).out
    \o _check_test_coverage(files, Get(review_cfg, "require_tests", TRUE))

C9_State ==
    /\ \A i, j \in 1..Len(issues) : i < j => DetectorRank(issues[i]) <= DetectorRank(issues[j])
    /\ pc \in {"ai", "build", "post", "return", "done"} => issues = DetectorsInOrder
    /\ (pc \in {"return", "done"} /\ issues # <<>>) =>
           Contains(reviews[1].body,
                    JoinWith(<<NL>>, <<RuleHeading>> \o issues \o << <<>> >>))

C9_Step == pc # "start" => IsPrefixOf(issues, issues')

\* C9: the findings list, and the Rule-Based Findings section of the posted
\* body, hold the size findings, then the file-count finding, then the
\* banned-pattern findings, then the test-coverage finding, each detector's
\* in the order it produced them; no step reorders, removes or rewrites one.
C9_FindingOrder == [](C9_State) /\ [][C9_Step]_vars

C9_Witness ==
    /\ pc = "done"
    /\ Len(issues) >= 5
    /\ {DetectorRank(issues[i]) : i \in 1..Len(issues)} = {1, 2, 3, 4}
    /\ Len(reviews) = 1

C10_State ==
    /\ Len(reviews) <= 1
    /\ pc = "aborted" => reviews = <<>>
    /\ reviews # <<>> =>
          /\ pc \in {"return", "done"}
          /\ raised = ""
          /\ reviews[1].body = JoinWith(<<NL>>, body_lines)
          /\ body_lines[1] = Header
          /\ body_lines[Len(body_lines)] \in {BannerChanges, BannerComment}

C10_Step ==
    reviews' # reviews =>
        /\ pc = "post" /\ reviews = <<>> /\ raised = ""
        /\ issues = DetectorsInOrder
        /\ body_lines # <<>>
        /\ reviews' = <<[event |-> event, body |-> JoinWith(<<NL>>, body_lines)]>>

\* C10: create_review is called at most once in a run, and only after the
\* four detectors and the AI step have finished and the whole body has been
\* assembled; a run that aborts before has posted nothing.
C10_NoPartialReport == [](C10_State) /\ [][C10_Step]_vars

C10_Witness ==
    /\ pc = "aborted" /\ raised = "re.error"
    /\ issues # <<>>
    /\ reviews = <<>>

-----------------------------------------------------------------------------
(* Claims about the review body                                            *)

NarrativePresent == ai_summary # None /\ Len(ai_summary) > 0

FindingsSection == <<RuleHeading>> \o issues \o << <<>> >>
NarrativeSection == <<AiHeading, ai_summary, <<>> >>

\* number of body lines before the narrative section, and before the closing part
AfterFindings == 1 + (IF issues # <<>> THEN Len(FindingsSection) ELSE 0)
AfterNarrative == AfterFindings + (IF NarrativePresent THEN 3 ELSE 0)
AllClearShown == issues = <<>> /\ ~NarrativePresent

Slice(s, from, n) == SubSeq(s, from + 1, from + n)

BodyLaidOut(b) ==
    /\ b[1] = Header
    /\ issues # <<>> => Slice(b, 1, Len(FindingsSection)) = FindingsSection
    /\ NarrativePresent => Slice(b, AfterFindings, 3) = NarrativeSection
    /\ AllClearShown => b[AfterNarrative + 1] = AllClear
    /\ Len(b) = AfterNarrative + (IF AllClearShown THEN 1 ELSE 0) + 1
    /\ b[Len(b)] = (IF event = "REQUEST_CHANGES" THEN BannerChanges ELSE BannerComment)
    /\ Contains1(b, RuleHeading) <=> issues # <<>>
    /\ Contains1(b, AiHeading) <=> NarrativePresent
    /\ Contains1(b, AllClear) <=> AllClearShown
    /\ Cardinality({i \in 1..Len(b) : b[i] \in {BannerChanges, BannerComment}}) = 1

\* C11: the body built by run is the header, then the Rule-Based Findings
\* section exactly when there are findings, then the AI-Powered Review section
\* exactly when narrative text is present, then the all-clear line exactly when
\* there is neither, then exactly one closing banner, the requesting-changes
\* one when the event is REQUEST_CHANGES and the review-complete one otherwise;
\* the posted body is these lines joined, so it is fixed by the findings and
\* the narrative.
C11_BodyLayout ==
    /\ AfterVerdict => BodyLaidOut(body_lines)
    /\ reviews # <<>> => reviews[1].body = JoinWith(<<NL>>, body_lines)

C11_Witness ==
    /\ pc = "done"
    /\ issues # <<>> /\ NarrativePresent
    /\ event = "REQUEST_CHANGES"
    /\ Len(body_lines) = Len(issues) + 7
    /\ Len(reviews) = 1

-----------------------------------------------------------------------------
(* Claims about where path exclusion is applied                            *)

\* the excluded-prefix lists compared: none, and the one in force
PrefixesInForce ==
    << <<"r","o","b","o","d","e","v","/">>,
       <<".","g","i","t","h","u","b","/">>,
       <<"A","G","E","N","T","S",".","m","d">> >>
PrefixLists == { <<>>, PrefixesInForce }

ExcludedUnder(ex, name) == \E k \in 1..Len(ex) : StartsWith(name, ex[k])

CountedUnder(ex, f) == ~ExcludedUnder(ex, f.filename) /\ f.status \in {"added", "modified"}

\* the coverage warning as it is due when ex is the excluded-prefix list
WarningDueUnder(ex) ==
    /\ arg.require_tests
    /\ \E i \in 1..Len(files) :
          /\ CountedUnder(ex, files[i])
          /\ HasSourceExtension(files[i].filename)
          /\ ~NamedLikeTest(files[i].filename)
    /\ ~\E i \in 1..Len(files) :
          CountedUnder(ex, files[i]) /\ NamedLikeTest(files[i].filename)

FilesOver == {i \in 1..Len(files) : files[i].changes > arg.max_changed}

\* the size and the file-count detectors treat every file alike, whatever
\* prefix its name has
SizeAndCountIgnorePrefixes ==
    /\ pc = "excl_size_ret" =>
          /\ Len(issues) = Cardinality(FilesOver)
          /\ \A k \in 1..Len(issues) :
                LET f == files[KthOf(FilesOver, k)]
                IN  SubSeq(issues[k], 4, 3 + Len(f.filename)) = f.filename
    /\ pc = "excl_count_ret" => (issues # <<>> <=> Len(files) > arg.max_files)

\* C12: path exclusion is applied only in the diff parser; no detector
\* applies the excluded-prefix list, so the size, file-count and
\* test-coverage results over a file list are the same whatever the list is.
C12_ExclusionOnlyInParser ==
    /\ SizeAndCountIgnorePrefixes
    /\ pc = "excl_cov_ret" =>
          \A ex \in PrefixLists : issues # <<>> <=> WarningDueUnder(ex)

\* C12 as amended: path exclusion is applied in the diff parser and again by
\* the test-coverage detector, which passes over every file whose name starts
\* with an excluded prefix; the size and file-count detectors do not apply
\* the list, so their results are the same whatever the list is.
C12_ExclusionInParserAndCoverage ==
    /\ SizeAndCountIgnorePrefixes
    /\ pc = "excl_cov_ret" =>
          /\ issues # <<>> <=> WarningDueUnder(PrefixesInForce)
          /\ issues # <<>> => issues = <<CoverageMessage>>

C12_Witness ==
    /\ pc = "excl_cov_ret"
    /\ arg.require_tests
    /\ files = <<[filename |-> N_robodev, status |-> "modified",
                  changes |-> DefaultMaxChanged + 1]>>
    /\ WarningDueUnder(<<>>)
    /\ issues = <<>>

-----------------------------------------------------------------------------
(* Claims about the PR comment                                             *)

\* the comment's body holds the marker
Marked(c) == "body" \in DOMAIN c /\ c.body # None /\ Contains1(c.body, Marker)
IsUnmarked(c) == ~Marked(c)

MarkedOf(cs) == {i \in 1..Len(cs) : Marked(cs[i])}

C13_State ==
    /\ Cardinality(MarkedOf(comments)) <= 1
    /\ pc = "pr_posted" =>
          /\ Cardinality(MarkedOf(comments)) = 1
          /\ \A i \in MarkedOf(comments) : comments[i].body = <<Marker, NL>> \o arg

C13_Step ==
    /\ SelectSeq(comments', IsUnmarked) = SelectSeq(comments, IsUnmarked)
    /\ Len(comments') = Len(comments) + (IF MarkedOf(comments) = {} THEN 1 ELSE 0)
          \/ comments' = comments
    /\ \A i \in 1..Len(comments) :
          /\ comments'[i].id = comments[i].id
          /\ IsUnmarked(comments[i]) => comments'[i] = comments[i]
    /\ pc' = "pr_failed" => comments' = comments

\* C13: starting from a PR on which at most one comment holds the marker,
\* after any sequence of successful post_pr_comment calls exactly one comment
\* holds the marker, its body is the marker followed by the body of the most
\* recent call, and no comment without the marker is created, changed or
\* removed.
C13_Upsert == [](C13_State) /\ [][C13_Step]_vars

C13_Witness ==
    /\ pc = "pr_posted"
    /\ Len(comments) = 3
    /\ comments[1] = [id |-> 1, body |-> B_human]
    /\ comments[2] = [id |-> 2, body |-> <<Marker, NL>> \o JiraBody]
    /\ comments[3] = [id |-> 3]
    /\ arg = JiraBody

-----------------------------------------------------------------------------
(* Claims about the summary gate                                           *)

SetToSuccess(name) == name \in DOMAIN env /\ env[name] = "success"
AllSuccess == \A name \in {"HYGIENE_RESULT", "JIRA_RESULT", "REVIEW_RESULT"} : SetToSuccess(name)

\* the comments that are a summary: the marker, then the summary's title
SummaryComments ==
    {i \in 1..Len(comments) :
        /\ "body" \in DOMAIN comments[i]
        /\ Len(comments[i].body) >= 3
        /\ comments[i].body[1] = Marker
        /\ comments[i].body[3] = "## RoboDev Review Summary\n"}

HasPassedHeading(body) ==
    \E k \in 1..Len(body) - 1 :
        body[k] = CheckMark /\ body[k + 1] = " All gates passed - ready for human review!"

C14_State ==
    /\ pc = "sum_done" => ret \in {0, 1} /\ (ret = 0 <=> AllSuccess)
    /\ pc \in {"sum_start", "sum_posted", "aborted"} => ret = -1
    /\ pc \in {"sum_posted", "sum_done"} =>
          /\ Cardinality(SummaryComments) = 1
          /\ \A i \in SummaryComments :
                /\ comments[i].body = <<Marker, NL>> \o arg
                /\ HasPassedHeading(comments[i].body) <=> AllSuccess

C14_Step ==
    /\ comments' # comments => pc = "sum_start" /\ pc' = "sum_posted"
    /\ pc' = "sum_posted" => Len(comments') <= Len(comments) + 1
    /\ ret' # ret => pc = "sum_posted" /\ pc' = "sum_done"

\* C14: summary.run returns 0 exactly when HYGIENE_RESULT, JIRA_RESULT and
\* REVIEW_RESULT are all set to "success" and 1 for every other combination;
\* before it returns it has posted exactly one summary comment, and the
\* all-gates-passed heading is in that comment exactly when it returns 0.
C14_SummaryVerdict == [](C14_State) /\ [][C14_Step]_vars

C14_Witness ==
    /\ pc = "sum_done"
    /\ env = [HYGIENE_RESULT |-> "success", JIRA_RESULT |-> "success"]
    /\ ret = 1
    /\ Len(comments) = 2
    /\ comments[1].body = <<Marker, NL>> \o arg
    /\ ~HasPassedHeading(comments[1].body)
    /\ comments[2] = [id |-> 2, body |-> B_human]

=============================================================================
